---- MODULE Spec2Model ----
(***************************************************************************)
(* Model of the htmlparse tree builder (Parse, parser.parse, parseRaw,     *)
(* parseStartTag, parseEndTag), its lexical scanner, its tag classifier    *)
(* and its node arena.                                                     *)
(*                                                                         *)
(* A byte is a one-character string, a []byte is a sequence of bytes.      *)
(* The Go call stack is the sequence `stack` of frames; one action is one  *)
(* iteration of a loop of the code or one return.  A run-time panic of Go  *)
(* (index or slice bounds out of range) ends the run with status "panic".  *)
(***************************************************************************)
EXTENDS Integers, Sequences, FiniteSets, TLC

VARIABLES
    input,   \* the []byte handed to Parse (never modified)
    text,    \* parser.text: the unparsed suffix of input
    nodes,   \* the html.Node objects; nodes[1] is the caller's root
    arena,   \* parser.arena: the block it points into and its free slots
    heap,    \* the number of blocks that make has returned so far
    old,     \* the slots of the trees built by the earlier calls of Parse
    stack,   \* the call stack below Parse, innermost frame last
    err,     \* the error value being returned (NoErr is nil)
    status,  \* "running", "returned" (Parse returned err) or "panic"
    eof      \* the construct whose scan ran off the end of input ("" if none)

vars == <<input, text, nodes, arena, heap, old, stack, err, status, eof>>

----------------------------------------------------------------------------
(* Bytes *)

NUL == "NUL"
\* The byte 0x60, the backtick
Backtick == "BACKTICK"

Upper == <<"A","B","C","D","E","F","G","H","I","J","K","L","M",
           "N","O","P","Q","R","S","T","U","V","W","X","Y","Z">>
Lower == <<"a","b","c","d","e","f","g","h","i","j","k","l","m",
           "n","o","p","q","r","s","t","u","v","w","x","y","z">>
Digits == {"0","1","2","3","4","5","6","7","8","9"}

IsUpper(ch) == \E i \in 1..26 : Upper[i] = ch

\* ch | 0x20 for 'A' <= ch <= 'Z'
lowerByte(ch) ==
    IF IsUpper(ch) THEN Lower[CHOOSE i \in 1..26 : Upper[i] = ch] ELSE ch

Min(S) == CHOOSE x \in S : \A y \in S : x <= y

\* t[k:] and t[:k] of Go, for 0 <= k <= len(t)
From(t, k) == SubSeq(t, k + 1, Len(t))
Upto(t, k) == SubSeq(t, 1, k)

\* bytes.IndexFunc(t, f): the 0-based index of the first byte satisfying f,
\* or -1; f is given by the set B of bytes it holds of (IndexFunc), or of
\* the bytes it does not hold of (IndexFuncNot).
IndexFunc(t, B) ==
    LET S == {i \in 1..Len(t) : t[i] \in B}
    IN  IF S = {} THEN -1 ELSE Min(S) - 1

IndexFuncNot(t, B) ==
    LET S == {i \in 1..Len(t) : t[i] \notin B}
    IN  IF S = {} THEN -1 ELSE Min(S) - 1

\* bytes.IndexByte
IndexByte(t, c) ==
    LET S == {i \in 1..Len(t) : t[i] = c}
    IN  IF S = {} THEN -1 ELSE Min(S) - 1

\* bytes.Index
Index(t, sep) ==
    LET S == {i \in 1..(Len(t) - Len(sep) + 1) : SubSeq(t, i, i + Len(sep) - 1) = sep}
    IN  IF S = {} THEN -1 ELSE Min(S) - 1

\* bytes.HasPrefix
HasPrefix(t, p) == Len(t) >= Len(p) /\ SubSeq(t, 1, Len(p)) = p

----------------------------------------------------------------------------
(* Lexical scanner *)

\* The bytes whitespaceF, identInvalidF and unquotInvalidF hold of.
whitespaceF == {" ", "\t", "\n", "\f", "\r"}

identInvalidF == whitespaceF \cup {NUL, "\"", "'", "=", "/", ">"}

unquotInvalidF == whitespaceF \cup {NUL, "\"", "'", "=", "<", ">"}

\* bytes.TrimLeftFunc(text, whitespaceF)
skipSpace(t) ==
    LET idx == IndexFuncNot(t, whitespaceF)
    IN  IF idx < 0 THEN <<>> ELSE From(t, idx)

\* asciiLower that copies every byte as it is
asciiLower_Copy(t) == [i \in 1..Len(t) |-> t[i]]

asciiLower(t) == [i \in 1..Len(t) |-> lowerByte(t[i])]

\* atom.Atom: a known tag name stands for its own atom, NoAtom is atom 0.
NoAtom == <<>>

Void == {<<"a", "r", "e", "a">>, <<"b", "a", "s", "e">>, <<"b", "r">>, <<"c", "o", "l">>, <<"e", "m", "b", "e", "d">>, <<"h", "r">>, <<"i", "m", "g">>, <<"i", "n", "p", "u", "t">>,
         <<"l", "i", "n", "k">>, <<"m", "e", "t", "a">>, <<"p", "a", "r", "a", "m">>, <<"s", "o", "u", "r", "c", "e">>, <<"t", "r", "a", "c", "k">>, <<"w", "b", "r">>}

\* The part of the atom table the inputs can spell.  A name that is missing
\* here and present in the real table would be a catNormal element either
\* way, and parseEndTag compares two such names alike (by atom or by
\* spelling, which agree: an atom's String() is the bytes looked up).
AtomTable == Void \cup {<<"t", "e", "m", "p", "l", "a", "t", "e">>, <<"s", "c", "r", "i", "p", "t">>, <<"s", "t", "y", "l", "e">>, <<"t", "e", "x", "t", "a", "r", "e", "a">>, <<"t", "i", "t", "l", "e">>,
                        <<"a">>, <<"b">>, <<"d", "i", "v">>, <<"h", "t", "m", "l">>, <<"h", "e", "a", "d">>, <<"b", "o", "d", "y">>, <<"h", "1">>,
                        <<"h", "r", "e", "f">>, <<"c", "l", "a", "s", "s">>}

\* atom.Lookup
Lookup(b) == IF b \in AtomTable THEN b ELSE NoAtom

\* nextIdent: panic is the slice text[:idx] with idx = -1
nextIdent(t) ==
    LET idx == IndexFunc(t, identInvalidF)
    IN  IF idx < 0 THEN [panic |-> TRUE, identS |-> <<>>, identA |-> NoAtom, text |-> t]
        ELSE IF idx = 0 THEN [panic |-> FALSE, identS |-> <<>>, identA |-> NoAtom, text |-> t]
        ELSE LET identB == asciiLower(Upto(t, idx))
             IN  [panic |-> FALSE, identS |-> identB, identA |-> Lookup(identB),
                  text |-> From(t, idx)]

\* nextValue that leaves the delimiters of a quoted value in the value
nextValue_KeepQuotes(t) ==
    IF t = <<>> THEN [panic |-> TRUE, val |-> <<>>, text |-> t]
    ELSE IF t[1] \in {"'", "\""}
    THEN LET idx == IndexByte(From(t, 1), t[1])
         IN  IF idx < 0 THEN [panic |-> TRUE, val |-> <<>>, text |-> t]
             ELSE [panic |-> FALSE, val |-> Upto(t, idx + 2),
                   text |-> From(From(t, 1), idx + 1)]
    ELSE LET idx == IndexFunc(t, unquotInvalidF)
         IN  IF idx < 0 THEN [panic |-> TRUE, val |-> <<>>, text |-> t]
             ELSE [panic |-> FALSE, val |-> Upto(t, idx), text |-> From(t, idx)]

\* nextValue that ends a quoted value at the first quote of either kind
nextValue_AnyQuote(t) ==
    IF t = <<>> THEN [panic |-> TRUE, val |-> <<>>, text |-> t]
    ELSE IF t[1] \in {"'", "\""}
    THEN LET idx == IndexFunc(From(t, 1), {"'", "\""})
         IN  IF idx < 0 THEN [panic |-> TRUE, val |-> <<>>, text |-> t]
             ELSE [panic |-> FALSE, val |-> Upto(From(t, 1), idx),
                   text |-> From(From(t, 1), idx + 1)]
    ELSE LET idx == IndexFunc(t, unquotInvalidF)
         IN  IF idx < 0 THEN [panic |-> TRUE, val |-> <<>>, text |-> t]
             ELSE [panic |-> FALSE, val |-> Upto(t, idx), text |-> From(t, idx)]

\* nextValue: panics on empty text (text[0]) and on idx = -1 (text[:idx])
nextValue(t) ==
    IF t = <<>> THEN [panic |-> TRUE, val |-> <<>>, text |-> t]
    ELSE IF t[1] \in {"'", "\""}
    THEN LET idx == IndexByte(From(t, 1), t[1])
         IN  IF idx < 0 THEN [panic |-> TRUE, val |-> <<>>, text |-> t]
             ELSE [panic |-> FALSE, val |-> Upto(From(t, 1), idx),
                   text |-> From(From(t, 1), idx + 1)]
    ELSE LET idx == IndexFunc(t, unquotInvalidF)
         IN  IF idx < 0 THEN [panic |-> TRUE, val |-> <<>>, text |-> t]
             ELSE [panic |-> FALSE, val |-> Upto(t, idx), text |-> From(t, idx)]

----------------------------------------------------------------------------
(* Tag classifier *)

\* categorize without the style entry of its raw-text case
categorize_StyleNormal(a) ==
    IF a \in Void THEN "catVoid"
    ELSE IF a = <<"t", "e", "m", "p", "l", "a", "t", "e">> THEN "catTemplate"
    ELSE IF a \in {<<"s", "c", "r", "i", "p", "t">>} THEN "catRaw"
    ELSE IF a \in {<<"t", "e", "x", "t", "a", "r", "e", "a">>, <<"t", "i", "t", "l", "e">>} THEN "catEscapableRaw"
    ELSE "catNormal"

\* categorize without the wbr entry of its void case
categorize_WbrNormal(a) ==
    IF a \in Void \ {<<"w", "b", "r">>} THEN "catVoid"
    ELSE IF a = <<"t", "e", "m", "p", "l", "a", "t", "e">> THEN "catTemplate"
    ELSE IF a \in {<<"s", "c", "r", "i", "p", "t">>, <<"s", "t", "y", "l", "e">>} THEN "catRaw"
    ELSE IF a \in {<<"t", "e", "x", "t", "a", "r", "e", "a">>, <<"t", "i", "t", "l", "e">>} THEN "catEscapableRaw"
    ELSE "catNormal"

categorize(a) ==
    IF a \in Void THEN "catVoid"
    ELSE IF a = <<"t", "e", "m", "p", "l", "a", "t", "e">> THEN "catTemplate"
    ELSE IF a \in {<<"s", "c", "r", "i", "p", "t">>, <<"s", "t", "y", "l", "e">>} THEN "catRaw"
    ELSE IF a \in {<<"t", "e", "x", "t", "a", "r", "e", "a">>, <<"t", "i", "t", "l", "e">>} THEN "catEscapableRaw"
    ELSE "catNormal"

----------------------------------------------------------------------------
(* Reference decoder: html.UnescapeString of golang.org/x/net/html, on the  *)
(* references the inputs can spell (no numeric reference is spelled).       *)

Entities == {<<"a", "m", "p", ";">>, <<"a", "m", "p">>, <<"l", "t", ";">>, <<"l", "t">>, <<"g", "t", ";">>, <<"g", "t">>, <<"q", "u", "o", "t", ";">>, <<"q", "u", "o", "t">>, <<"a", "p", "o", "s", ";">>}

EntityValue(name) ==
    IF name \in {<<"a", "m", "p", ";">>, <<"a", "m", "p">>} THEN "&"
    ELSE IF name \in {<<"l", "t", ";">>, <<"l", "t">>} THEN "<"
    ELSE IF name \in {<<"g", "t", ";">>, <<"g", "t">>} THEN ">"
    ELSE IF name \in {<<"q", "u", "o", "t", ";">>, <<"q", "u", "o", "t">>} THEN "\""
    ELSE "'"

Alnum == {Upper[i] : i \in 1..26} \cup {Lower[i] : i \in 1..26} \cup Digits

\* the entity name after a '&': the alphanumeric run and a ';' that follows it
EntityName(t) ==
    LET k == IndexFuncNot(t, Alnum)
        n == IF k < 0 THEN Len(t) ELSE k
    IN  IF n < Len(t) /\ t[n + 1] = ";" THEN Upto(t, n + 1) ELSE Upto(t, n)

\* the longest proper prefix (2..6 bytes) of name that is an entity, or 0
PrefixEntity(name) ==
    LET maxLen == IF Len(name) - 1 > 6 THEN 6 ELSE Len(name) - 1
        S == {j \in 2..maxLen : Upto(name, j) \in Entities}
    IN  IF S = {} THEN 0 ELSE CHOOSE j \in S : \A k \in S : k <= j

RECURSIVE UnescapeString(_)
UnescapeString(t) ==
    IF t = <<>> THEN <<>>
    ELSE IF t[1] # "&" THEN <<t[1]>> \o UnescapeString(Tail(t))
    ELSE LET name == EntityName(Tail(t))
             j == PrefixEntity(name)
         IN  IF name \in Entities
             THEN <<EntityValue(name)>> \o UnescapeString(From(t, 1 + Len(name)))
             ELSE IF j > 0
             THEN <<EntityValue(Upto(name, j))>> \o UnescapeString(From(t, 1 + j))
             ELSE <<"&">> \o name \o UnescapeString(From(t, 1 + Len(name)))

----------------------------------------------------------------------------
(* Nodes and the arena *)

arenaSize == 64

NoErr == <<>>

\* Offset in input of the first byte of the suffix t.
Off(t) == Len(input) - Len(t)

\* A zeroed html.Node.  Type, Data, DataAtom, Attr, Parent and Children are
\* the fields of html.Node (Children is the FirstChild/NextSibling list).
\* slot is the arena slot holding the node.  from, to, tagEnd, bodyEnd and
\* via record where the node came from: the node is input[from,to), an
\* element's start tag is input[from,tagEnd), its body input[tagEnd,bodyEnd);
\* via is the branch of the code that made a Text node ("text", "raw",
\* "escapable") or chose an element's body ("selfClosing" or its category).
\* An html.Attribute is [Key, Val] with three more records of where it came
\* from: keyAt and at are the offsets in input of the first byte of the name
\* and of the value, kind is the branch that read the value ("none": no '=',
\* "quoted" or "bare": the two branches of nextValue).
ZeroNode(slot) ==
    [Type |-> "ErrorNode", Data |-> <<>>, DataAtom |-> NoAtom, Attr |-> <<>>,
     Parent |-> 0, Children |-> <<>>, slot |-> slot,
     from |-> -1, to |-> -1, tagEnd |-> -1, bodyEnd |-> -1, via |-> ""]

RootNode == [ZeroNode(<<0, 0>>) EXCEPT !.Type = "DocumentNode"]

\* The program state as one record, so that a step is a chain of updates.
Cur == [text |-> text, nodes |-> nodes, arena |-> arena, heap |-> heap, stack |-> stack,
        err |-> err, status |-> status, eof |-> eof]

\* The content of the memory at slot: what an earlier node of this parse
\* left there, zero if make returned the block and no node was put there.
Memory(s, slot) ==
    LET held == {m \in 1..Len(s.nodes) : s.nodes[m].slot = slot}
    IN  IF held = {} THEN ZeroNode(slot) ELSE s.nodes[CHOOSE m \in held : TRUE]

\* newNode without "*a = (*a)[1:]"
newNode_NoAdvance(s) ==
    LET grow == s.arena.len = 0
        a == IF grow THEN [block |-> s.heap + 1, len |-> arenaSize] ELSE s.arena
        slot == <<a.block, arenaSize - a.len>>
    IN  [s EXCEPT !.arena = a,
                  !.heap = IF grow THEN s.heap + 1 ELSE s.heap,
                  !.nodes = Append(s.nodes, Memory(s, slot))]

\* arena.newNode: s with one more node, the slot just handed out.  A block
\* that make returns is named by its ordinal among all blocks made, a slot
\* by its block and its index in the block.
newNode(s) ==
    LET grow == s.arena.len = 0
        a == IF grow THEN [block |-> s.heap + 1, len |-> arenaSize] ELSE s.arena
        slot == <<a.block, arenaSize - a.len>>
    IN  [s EXCEPT !.arena = [a EXCEPT !.len = a.len - 1],
                  !.heap = IF grow THEN s.heap + 1 ELSE s.heap,
                  !.nodes = Append(s.nodes, Memory(s, slot))]

\* The node newNode(s) handed out.
Fresh(s) == Len(s.nodes)

\* html.Node.AppendChild
AppendChild(ns, parent, n) ==
    [ns EXCEPT ![parent].Children = Append(ns[parent].Children, n),
               ![n].Parent = parent]

\* parser.textNode on the bytes t, which came from offset `from` of input
textNode(s, parent, t, from, via) ==
    IF Len(t) > 0
    THEN LET s1 == newNode(s)
             n == Fresh(s1)
             ns == [s1.nodes EXCEPT ![n].Type = "TextNode",
                                    ![n].Data = UnescapeString(t),
                                    ![n].from = from,
                                    ![n].to = from + Len(t),
                                    ![n].via = via]
         IN  [s1 EXCEPT !.nodes = AppendChild(ns, parent, n)]
    ELSE s

\* rawTextNode that decodes the body as textNode does
rawTextNode_Decoded(s, parent, buf, from) ==
    IF Len(buf) > 0
    THEN LET s1 == newNode(s)
             n == Fresh(s1)
             ns == [s1.nodes EXCEPT ![n].Type = "TextNode",
                                    ![n].Data = UnescapeString(buf),
                                    ![n].from = from,
                                    ![n].to = from + Len(buf),
                                    ![n].via = "raw"]
         IN  [s1 EXCEPT !.nodes = AppendChild(ns, parent, n)]
    ELSE s

\* The Text child parseRaw makes of a non-escapable body (no decoding).
rawTextNode(s, parent, buf, from) ==
    IF Len(buf) > 0
    THEN LET s1 == newNode(s)
             n == Fresh(s1)
             ns == [s1.nodes EXCEPT ![n].Type = "TextNode",
                                    ![n].Data = buf,
                                    ![n].from = from,
                                    ![n].to = from + Len(buf),
                                    ![n].via = "raw"]
         IN  [s1 EXCEPT !.nodes = AppendChild(ns, parent, n)]
    ELSE s

----------------------------------------------------------------------------
(* Control: frames, returns, panics *)

Top == stack[Len(stack)]
Pop(st) == SubSeq(st, 1, Len(st) - 1)

Running == status = "running" /\ err = NoErr /\ stack # <<>>

ParseFrame(parent, root) == [fn |-> "parse", parent |-> parent, root |-> root]
RawFrame(parent, escapable, from) ==
    [fn |-> "parseRaw", parent |-> parent, escapable |-> escapable,
     buf |-> <<>>, from |-> from]
StartTagFrame(node) == [fn |-> "parseStartTag", node |-> node]

\* A function returns e to its caller; st is the stack of the caller.
Return(s, e, st) ==
    [s EXCEPT !.err = e, !.stack = st,
              !.status = IF st = <<>> THEN "returned" ELSE "running"]

\* A run-time panic while scanning the construct `where` at the end of input.
Panic(s, where) == [s EXCEPT !.status = "panic", !.eof = where]

Commit(s) ==
    /\ text' = s.text
    /\ nodes' = s.nodes
    /\ arena' = s.arena
    /\ heap' = s.heap
    /\ stack' = s.stack
    /\ err' = s.err
    /\ status' = s.status
    /\ eof' = s.eof
    /\ UNCHANGED <<input, old>>

ErrEOFOpening == <<"Unexpected end of file in opening tag">>
ErrEOFComment == <<"Unexpected end of file in comment tag">>
ErrOpening(ch) == <<"Unexpected %q in opening tag", ch>>
ErrOpeningIn(ch, data) == <<"Unexpected %q in opening %q tag", ch, data>>
ErrSlash(data) == <<"Unexpected '/' in opening %q tag", data>>
ErrClosing(ch) == <<"Unexpected %q in closing tag", ch>>
ErrClosingIn(ch, elemS) == <<"Unexpected %q in closing %q tag", ch, elemS>>
ErrUnclosed(data) == <<"Unclosed %q element", data>>

\* parseEndTag that compares atoms only, without the comparison of the
\* spellings of two names that have no atom
parseEndTag_AtomOnly(ns, start, t) ==
    LET id == nextIdent(From(t, 2))
        t2 == skipSpace(id.text)
        none == [panic |-> "", err |-> NoErr, ok |-> FALSE, text |-> id.text,
                 elemS |-> id.identS]
    IN  IF id.panic THEN [none EXCEPT !.panic = "endname"]
        ELSE IF id.identS = <<>> THEN [none EXCEPT !.err = ErrClosing(id.text[1])]
        ELSE IF start = 0 \/ id.identA # ns[start].DataAtom
        THEN none
        ELSE IF t2 = <<>> THEN [none EXCEPT !.panic = "endspace"]
        ELSE IF t2[1] # ">" THEN [none EXCEPT !.err = ErrClosingIn(t2[1], id.identS)]
        ELSE [none EXCEPT !.ok = TRUE, !.text = From(t2, 1)]

\* parser.parseEndTag(start) on text t; start = 0 is nil.
parseEndTag(ns, start, t) ==
    LET id == nextIdent(From(t, 2))
        t2 == skipSpace(id.text)
        none == [panic |-> "", err |-> NoErr, ok |-> FALSE, text |-> id.text,
                 elemS |-> id.identS]
    IN  IF id.panic THEN [none EXCEPT !.panic = "endname"]
        ELSE IF id.identS = <<>> THEN [none EXCEPT !.err = ErrClosing(id.text[1])]
        ELSE IF start = 0 \/ id.identA # ns[start].DataAtom
                \/ (id.identA = NoAtom /\ id.identS # ns[start].Data)
        THEN none
        ELSE IF t2 = <<>> THEN [none EXCEPT !.panic = "endspace"]
        ELSE IF t2[1] # ">" THEN [none EXCEPT !.err = ErrClosingIn(t2[1], id.identS)]
        ELSE [none EXCEPT !.ok = TRUE, !.text = From(t2, 1)]

----------------------------------------------------------------------------
(* parser.parse: one action per way one iteration of its loop can go *)

InParse == Running /\ Top.fn = "parse"

\* lines 32-33 without the call of textNode: the text before the next '<'
\* is skipped
AtLt_SkipText(s, parent, idx) == [s EXCEPT !.text = From(s.text, idx)]

\* lines 32-33: the text before the next '<' becomes a Text child
AtLt(s, parent, idx) ==
    [textNode(s, parent, Upto(s.text, idx), Off(s.text), "text")
       EXCEPT !.text = From(s.text, idx)]

\* lines 26-29 and 119-123 without the test of root at lines 119-121
ParseEnd_Lenient ==
    /\ InParse
    /\ IndexByte(text, "<") < 0
    /\ Commit(Return(textNode(Cur, Top.parent, text, Off(text), "text"), NoErr, Pop(stack)))

\* No '<' is left: lines 26-29 and 119-123.
ParseEnd ==
    /\ InParse
    /\ IndexByte(text, "<") < 0
    /\ Commit(IF ~Top.root
              THEN Return(Cur, ErrUnclosed(nodes[Top.parent].Data), Pop(stack))
              ELSE Return(textNode(Cur, Top.parent, text, Off(text), "text"), NoErr, <<>>))

\* '<' is the last byte: lines 35-37.
ParseTruncated ==
    /\ InParse
    /\ IndexByte(text, "<") >= 0
    /\ LET s == AtLt(Cur, Top.parent, IndexByte(text, "<"))
       IN  /\ Len(s.text) < 2
           /\ Commit(Return(s, ErrEOFOpening, Pop(stack)))

\* parseStartTag up to its attribute loop (lines 181-195), called at line 42.
ParseOpenTag ==
    /\ InParse
    /\ IndexByte(text, "<") >= 0
    /\ LET s == AtLt(Cur, Top.parent, IndexByte(text, "<"))
           id == nextIdent(skipSpace(From(s.text, 1)))
           s1 == newNode([s EXCEPT !.text = id.text])
           n == Fresh(s1)
       IN  /\ Len(s.text) >= 2
           /\ s.text[2] \notin {"/", "!"}
           /\ Commit(
                IF id.panic THEN Panic(s, "tagname")
                ELSE IF id.identS = <<>>
                THEN Return([s EXCEPT !.text = id.text], ErrOpening(id.text[1]), stack)
                ELSE [s1 EXCEPT !.nodes = [s1.nodes EXCEPT
                                             ![n].Type = "ElementNode",
                                             ![n].Data = id.identS,
                                             ![n].DataAtom = id.identA,
                                             ![n].from = Off(s.text)],
                                !.text = skipSpace(id.text),
                                !.stack = Append(stack, StartTagFrame(n))])

InStartTag == Running /\ Top.fn = "parseStartTag"

\* One iteration of the attribute loop of parseStartTag (lines 196-219).
StartTagAttr ==
    /\ InStartTag
    /\ IF text = <<>> THEN TRUE ELSE text[1] \notin {"/", ">"}
    /\ LET id == nextIdent(text)
           t1 == skipSpace(id.text)
           hasVal == t1 # <<>> /\ t1[1] = "="
           v == IF hasVal THEN nextValue(skipSpace(From(t1, 1)))
                ELSE [panic |-> FALSE, val |-> <<>>, text |-> t1]
           n == Top.node
           vt == skipSpace(From(t1, 1))
           at == IF ~hasVal THEN Off(t1)
                 ELSE IF vt[1] \in {"'", "\""} THEN Off(vt) + 1 ELSE Off(vt)
           kind == IF ~hasVal THEN "none"
                   ELSE IF vt[1] \in {"'", "\""} THEN "quoted" ELSE "bare"
       IN  Commit(
             IF text = <<>> THEN Panic(Cur, "tagspace")
             ELSE IF id.panic THEN Panic(Cur, "attrname")
             ELSE IF id.identS = <<>>
             THEN Return([Cur EXCEPT !.text = id.text],
                         ErrOpeningIn(id.text[1], nodes[n].Data), Pop(stack))
             ELSE IF t1 = <<>> THEN Panic([Cur EXCEPT !.text = t1], "tagspace")
             ELSE IF v.panic THEN Panic([Cur EXCEPT !.text = skipSpace(From(t1, 1))], "attrvalue")
             ELSE [Cur EXCEPT !.text = skipSpace(v.text),
                              !.nodes = [nodes EXCEPT ![n].Attr =
                                   Append(nodes[n].Attr,
                                          [Key |-> id.identS, Val |-> v.val, at |-> at,
                                           keyAt |-> Off(text), kind |-> kind])]])

\* The body of an element just opened: the switch of parse, lines 55-66.
\* s is the state with parseStartTag's frame still on the stack.
EnterBody(s, n) ==
    LET cat == categorize(s.nodes[n].DataAtom)
        caller == Pop(s.stack)
        s1 == [s EXCEPT !.nodes = [s.nodes EXCEPT ![n].via = cat]]
    IN  IF cat = "catVoid"
        THEN [s1 EXCEPT !.stack = caller,
                        !.nodes = [s1.nodes EXCEPT ![n].bodyEnd = Off(s.text),
                                                   ![n].to = Off(s.text)]]
        ELSE IF cat = "catRaw"
        THEN [s1 EXCEPT !.stack = Append(caller, RawFrame(n, FALSE, Off(s.text)))]
        ELSE IF cat = "catEscapableRaw"
        THEN [s1 EXCEPT !.stack = Append(caller, RawFrame(n, TRUE, Off(s.text)))]
        ELSE [s1 EXCEPT !.stack = Append(caller, ParseFrame(n, FALSE))]

\* lines 47-66 without the test of selfClosing at lines 49-53
OpenElement_IgnoreSelfClosing(s, n, parent, selfClosing) ==
    EnterBody([s EXCEPT !.nodes = [AppendChild(s.nodes, parent, n) EXCEPT
                                     ![n].tagEnd = Off(s.text)]], n)

\* The element parseStartTag returned is appended (line 47); a self-closing
\* one gets no body (lines 49-53).
OpenElement(s, n, parent, selfClosing) ==
    LET s1 == [s EXCEPT !.nodes = [AppendChild(s.nodes, parent, n) EXCEPT
                                     ![n].tagEnd = Off(s.text)]]
    IN  IF selfClosing
        THEN [s1 EXCEPT !.stack = Pop(s.stack),
                        !.nodes = [s1.nodes EXCEPT ![n].bodyEnd = Off(s.text),
                                                   ![n].to = Off(s.text),
                                                   ![n].via = "selfClosing"]]
        ELSE EnterBody(s1, n)

\* The end of parseStartTag (lines 221-232) and what parse does with the
\* element it returns (lines 43-69).
StartTagClose ==
    /\ InStartTag
    /\ text # <<>>
    /\ text[1] \in {"/", ">"}
    /\ LET selfClosing == text[1] = "/"
           t1 == IF selfClosing THEN skipSpace(From(text, 1)) ELSE text
           n == Top.node
           parent == stack[Len(stack) - 1].parent
       IN  Commit(
             IF t1 = <<>> THEN Panic([Cur EXCEPT !.text = t1], "slash")
             ELSE IF t1[1] # ">"
             THEN Return([Cur EXCEPT !.text = t1], ErrSlash(nodes[n].Data), Pop(stack))
             ELSE OpenElement([Cur EXCEPT !.text = From(t1, 1)], n, parent, selfClosing))

\* A close tag in tag mode: lines 71-87.
ParseCloseTag ==
    /\ InParse
    /\ IndexByte(text, "<") >= 0
    /\ LET s == AtLt(Cur, Top.parent, IndexByte(text, "<"))
           start == IF Top.root THEN 0 ELSE Top.parent
           r == parseEndTag(s.nodes, start, s.text)
           p == Top.parent
       IN  /\ Len(s.text) >= 2
           /\ s.text[2] = "/"
           /\ Commit(
                IF r.panic # "" THEN Panic([s EXCEPT !.text = r.text], r.panic)
                ELSE IF r.err # NoErr THEN Return([s EXCEPT !.text = r.text], r.err, Pop(stack))
                ELSE IF r.ok
                THEN Return([s EXCEPT !.text = r.text,
                                      !.nodes = [s.nodes EXCEPT ![p].bodyEnd = Off(s.text),
                                                                ![p].to = Off(r.text)]],
                            NoErr, Pop(stack))
                ELSE Return([s EXCEPT !.text = r.text],
                            ErrUnclosed(s.nodes[p].Data), Pop(stack)))

\* Declaration that takes the closing bytes of the construct into the payload
Declaration_KeepEnd(s, parent, from, ty, t, idx, skip, where) ==
    LET s1 == newNode(s)
        n == Fresh(s1)
        ns == [s1.nodes EXCEPT ![n].Type = ty,
                               ![n].Data = Upto(t, idx + skip),
                               ![n].from = from,
                               ![n].to = Off(t) + idx + skip]
    IN  IF idx < 0
        THEN Panic([s1 EXCEPT !.text = t,
                              !.nodes = [s1.nodes EXCEPT ![n].Type = ty]], where)
        ELSE [s1 EXCEPT !.text = From(t, idx + skip),
                        !.nodes = AppendChild(ns, parent, n)]

\* The node of a "<!" construct: Type ty, payload text[:idx], then idx+skip
\* bytes are consumed; idx = -1 is the panic of the slice text[:idx].
Declaration(s, parent, from, ty, t, idx, skip, where) ==
    LET s1 == newNode(s)
        n == Fresh(s1)
        ns == [s1.nodes EXCEPT ![n].Type = ty,
                               ![n].Data = Upto(t, idx),
                               ![n].from = from,
                               ![n].to = Off(t) + idx + skip]
    IN  IF idx < 0
        THEN Panic([s1 EXCEPT !.text = t,
                              !.nodes = [s1.nodes EXCEPT ![n].Type = ty]], where)
        ELSE [s1 EXCEPT !.text = From(t, idx + skip),
                        !.nodes = AppendChild(ns, parent, n)]

\* A comment, a doctype or another "<!" construct: lines 89-115.
ParseDecl ==
    /\ InParse
    /\ IndexByte(text, "<") >= 0
    /\ LET s == AtLt(Cur, Top.parent, IndexByte(text, "<"))
           from == Off(s.text)
           t == From(s.text, 2)
           id == nextIdent(t)
           dt == skipSpace(id.text)
           p == Top.parent
       IN  /\ Len(s.text) >= 2
           /\ s.text[2] = "!"
           /\ Commit(
                IF Len(t) = 0 THEN Return([s EXCEPT !.text = t], ErrEOFComment, Pop(stack))
                ELSE IF HasPrefix(t, <<"-", "-">>)
                THEN Declaration(s, p, from, "CommentNode", From(t, 2),
                                 Index(From(t, 2), <<"-", "-", ">">>), 3, "comment")
                ELSE IF id.panic
                THEN Declaration(s, p, from, "CommentNode", t, -1, 0, "decl")
                ELSE IF id.identS = <<"d", "o", "c", "t", "y", "p", "e">>
                THEN Declaration(s, p, from, "DoctypeNode", dt, IndexByte(dt, ">"), 1, "doctype")
                ELSE Declaration(s, p, from, "CommentNode", t, IndexByte(t, ">"), 1, "decl"))

----------------------------------------------------------------------------
(* parser.parseRaw: one action per way one iteration of its loop can go *)

InRaw == Running /\ Top.fn = "parseRaw"

\* buf.Write(b) in the innermost frame
BufWrite(st, b) == [st EXCEPT ![Len(st)].buf = st[Len(st)].buf \o b]

\* No '<' is left: lines 129-132.
RawEnd ==
    /\ InRaw
    /\ IndexByte(text, "<") < 0
    /\ Commit(Return(Cur, ErrUnclosed(nodes[Top.parent].Data), Pop(stack)))

\* '<' is the last byte: lines 135-140.
RawTruncated ==
    /\ InRaw
    /\ IndexByte(text, "<") >= 0
    /\ IndexByte(text, "<") = Len(text) - 1
    /\ LET idx == IndexByte(text, "<")
       IN  Commit(Return([Cur EXCEPT !.text = From(text, idx),
                                     !.stack = BufWrite(stack, Upto(text, idx))],
                         ErrEOFOpening, Pop(stack)))

\* '<' not followed by '/': the two bytes are text (lines 135-142, 166-167).
RawSkip ==
    /\ InRaw
    /\ IndexByte(text, "<") >= 0
    /\ LET idx == IndexByte(text, "<")
           t == From(text, idx)
       IN  /\ Len(t) >= 2
           /\ t[2] # "/"
           /\ Commit([Cur EXCEPT !.text = From(t, 2),
                                 !.stack = BufWrite(stack, Upto(text, idx) \o Upto(t, 2))])

\* "</": parseEndTag against the element being scanned (lines 142-167).
RawCloseTag ==
    /\ InRaw
    /\ IndexByte(text, "<") >= 0
    /\ LET idx == IndexByte(text, "<")
           oldText == From(text, idx)
           p == Top.parent
           buf == Top.buf \o Upto(text, idx)
           s == [Cur EXCEPT !.text = oldText, !.stack = BufWrite(stack, Upto(text, idx))]
           r == parseEndTag(nodes, p, oldText)
           closed == [s EXCEPT !.nodes = [s.nodes EXCEPT ![p].bodyEnd = Off(oldText),
                                                         ![p].to = Off(r.text)]]
           child == IF Top.escapable THEN textNode(closed, p, buf, Top.from, "escapable")
                    ELSE rawTextNode(closed, p, buf, Top.from)
       IN  /\ Len(oldText) >= 2
           /\ oldText[2] = "/"
           /\ Commit(
                IF r.panic # "" THEN Panic([s EXCEPT !.text = r.text], r.panic)
                ELSE IF r.err # NoErr THEN Return([s EXCEPT !.text = r.text], r.err, Pop(stack))
                ELSE IF r.ok
                THEN Return([child EXCEPT !.text = r.text], NoErr, Pop(stack))
                ELSE [s EXCEPT !.text = From(oldText, 2),
                               !.stack = BufWrite(s.stack, Upto(oldText, 2))])

\* A caller that drops the error of the function it called and returns nil
ReturnErr_Dropped ==
    /\ status = "running"
    /\ err # NoErr
    /\ stack # <<>>
    /\ Commit(Return(Cur, NoErr, Pop(stack)))

\* "if err != nil { return err }" in the caller of a function that returned
\* an error: parse lines 43-45 and 67-69, and Parse line 14.
ReturnErr ==
    /\ status = "running"
    /\ err # NoErr
    /\ stack # <<>>
    /\ Commit(Return(Cur, err, Pop(stack)))

Next ==
    \/ ParseEnd
    \/ ParseTruncated
    \/ ParseOpenTag
    \/ StartTagAttr
    \/ StartTagClose
    \/ ParseCloseTag
    \/ ParseDecl
    \/ RawEnd
    \/ RawTruncated
    \/ RawSkip
    \/ RawCloseTag
    \/ ReturnErr

----------------------------------------------------------------------------
(* Rendering: html.Render of golang.org/x/net/html, which the tests use to  *)
(* read a parsed tree back (testParseRen).                                  *)

\* html.EscapeString
RECURSIVE EscapeString(_)
EscapeString(t) ==
    IF t = <<>> THEN <<>>
    ELSE (CASE t[1] = "&" -> <<"&", "a", "m", "p", ";">>
            [] t[1] = "'" -> <<"&", "#", "3", "9", ";">>
            [] t[1] = "<" -> <<"&", "l", "t", ";">>
            [] t[1] = ">" -> <<"&", "g", "t", ";">>
            [] t[1] = "\"" -> <<"&", "#", "3", "4", ";">>
            [] t[1] = "\r" -> <<"&", "#", "1", "3", ";">>
            [] OTHER -> <<t[1]>>) \o EscapeString(Tail(t))

\* The elements whose Text children Render writes without escaping.
RenderRawText == {<<"i", "f", "r", "a", "m", "e">>, <<"n", "o", "e", "m", "b", "e", "d">>, <<"n", "o", "f", "r", "a", "m", "e", "s">>, <<"n", "o", "s", "c", "r", "i", "p", "t">>, <<"p", "l", "a", "i", "n", "t", "e", "x", "t">>,
                  <<"s", "c", "r", "i", "p", "t">>, <<"s", "t", "y", "l", "e">>, <<"x", "m", "p">>}

RECURSIVE RenderAttrs(_)
RenderAttrs(as) ==
    IF as = <<>> THEN <<>>
    ELSE <<" ">> \o as[1].Key \o <<"=", "\"">> \o EscapeString(as[1].Val) \o <<"\"">>
         \o RenderAttrs(Tail(as))

RECURSIVE RenderNode(_, _)
RECURSIVE RenderChildren(_, _, _)
RenderChildren(ns, cs, raw) ==
    IF cs = <<>> THEN <<>>
    ELSE (IF raw /\ ns[cs[1]].Type = "TextNode" THEN ns[cs[1]].Data
          ELSE RenderNode(ns, cs[1]))
         \o RenderChildren(ns, Tail(cs), raw)

RenderNode(ns, n) ==
    LET nd == ns[n]
    IN  CASE nd.Type = "TextNode" -> EscapeString(nd.Data)
          [] nd.Type = "DocumentNode" -> RenderChildren(ns, nd.Children, FALSE)
          [] nd.Type = "CommentNode" -> <<"<", "!", "-", "-">> \o nd.Data \o <<"-", "-", ">">>
          [] nd.Type = "DoctypeNode" -> <<"<", "!", "D", "O", "C", "T", "Y", "P", "E", " ">> \o nd.Data \o <<">">>
          [] OTHER ->
               <<"<">> \o nd.Data \o RenderAttrs(nd.Attr) \o
               (IF nd.Data \in Void THEN <<"/", ">">>
                ELSE <<">">> \o RenderChildren(ns, nd.Children, nd.Data \in RenderRawText)
                     \o <<"<", "/">> \o nd.Data \o <<">">>)

\* html.Render(b, doc) for the document the caller handed to Parse
Render == RenderNode(nodes, 1)

----------------------------------------------------------------------------
(* Inputs *)

\* The state after Parse has built its parser and called parse(parent, true).
InitOn(inputs) ==
    /\ input \in inputs
    /\ text = input
    /\ nodes = <<RootNode>>
    /\ arena = [block |-> 0, len |-> 0]
    /\ heap = 0
    /\ old = <<>>
    /\ stack = <<ParseFrame(1, TRUE)>>
    /\ err = NoErr
    /\ status = "running"
    /\ eof = ""

\* Inputs of the repository's tests, and truncated and malformed ones.
Corpus ==
    { <<"<", "a", ">", "f", "o", "o", "<", "/", "a", ">">>, <<"<", "d", "I", "v", ">", "f", "o", "o", "<", "/", "D", "i", "V", ">">>, <<"1", "<", "a", ">", "2", "<", "/", "a", ">", "3">>, <<"1", "<", "a", ">", "2", "<", "a", ">", "3", "<", "/", "a", ">", "<", "/", "a", ">", "<", "a", ">", "<", "/", "a", ">">>,
      <<"<", "a", " ", "h", "r", "e", "f", "=", "f", "o", "o", " ", "c", "l", "a", "s", "s", "=", "b", "a", "r", ">", "<", "/", "a", ">">>, <<"<", "a", " ", "h", "r", "e", "f", "=", "'", "f", "o", "o", "'", " ", "c", "l", "a", "s", "s", "=", "'", "b", "a", "r", " ", "b", "a", "z", "'", ">", "<", "/", "a", ">">>,
      <<"<", "a", " ", "h", "r", "e", "f", "=", "\"", "f", "o", "o", "\"", " ", "c", "l", "a", "s", "s", "=", "\"", "b", "a", "r", " ", "b", "a", "z", "\"", ">", "<", "/", "a", ">">>,
      <<"<", "a", "r", "e", "a", ">", "<", "b", "a", "s", "e", ">", "<", "b", "r", ">", "<", "c", "o", "l", ">", "<", "e", "m", "b", "e", "d", ">", "<", "h", "r", ">", "<", "i", "m", "g", ">", "<", "i", "n", "p", "u", "t", ">", "<", "l", "i", "n", "k", ">", "<", "m", "e", "t", "a", ">", "<", "p", "a", "r", "a", "m", ">", "<", "s", "o", "u", "r", "c", "e", ">", "<", "t", "r", "a", "c", "k", ">", "<", "w", "b", "r", ">">>,
      <<"<", "a", "r", "e", "a", "/", ">", "<", "b", "a", "s", "e", "/", ">", "<", "b", "r", "/", ">", "<", "c", "o", "l", "/", ">", "<", "e", "m", "b", "e", "d", "/", ">", "<", "h", "r", "/", ">", "<", "i", "m", "g", "/", ">", "<", "i", "n", "p", "u", "t", "/", ">", "<", "l", "i", "n", "k", "/", ">", "<", "m", "e", "t", "a", "/", ">", "<", "p", "a", "r", "a", "m", "/", ">", "<", "s", "o", "u", "r", "c", "e", "/", ">", "<", "t", "r", "a", "c", "k", "/", ">", "<", "w", "b", "r", "/", ">">>,
      <<"<", "s", "c", "r", "i", "p", "t", ">", "a", "<", "B", ">", "\"", "c", "&", "d", "q", "u", "o", "t", ";", "<", "/", "s", "c", "r", "i", "p", "t", ">">>, <<"<", "s", "t", "y", "l", "e", ">", "a", "<", "B", ">", "'", "c", "&", "s", "q", "u", "o", "t", ";", "<", "/", "s", "t", "y", "l", "e", ">">>,
      <<"<", "t", "e", "x", "t", "a", "r", "e", "a", ">", "a", "<", "B", ">", "\"", "c", "&", "q", "u", "o", "t", ";", "<", "/", "t", "e", "x", "t", "a", "r", "e", "a", ">">>, <<"<", "t", "i", "t", "l", "e", ">", "a", "<", "B", ">", "'", "c", "&", "a", "p", "o", "s", ";", "<", "/", "t", "i", "t", "l", "e", ">">>,
      <<"<", "!", "-", "-", "f", "o", "o", "b", "a", "r", "-", ">", "-", "-", ">">>, <<"<", "!", "-", "-", " ", "h", "e", "l", "l", "o", " ", "w", "o", "r", "l", "d", " ", "<", "!", "-", "-", ">">>, <<"<", "!", "[", "C", "D", "A", "T", "A", "[", "h", "e", "l", "l", "o", " ", "w", "o", "r", "l", "d", "]", "]", ">">>,
      <<"<", "!", "D", "O", "C", "T", "Y", "P", "E", " ", "h", "t", "m", "l", ">">>, <<"<", "!", "d", "o", "c", "t", "y", "p", "e", " ", "h", "t", "m", "l", ">">>, <<"<", "!", "d", "o", "c", "t", "y", "p", "e", " ", "h", "t", "m", "l", " ", "\"", "f", "o", "o", " ", "b", "a", "r", "\"", ">">>,
      <<"<", "h", "t", "m", "l", ">", "<", "h", "e", "a", "d", ">", "<", "t", "i", "t", "l", "e", ">", "H", "e", "l", "l", "o", ",", " ", "w", "o", "r", "l", "d", "!", "<", "/", "t", "i", "t", "l", "e", ">", "<", "/", "h", "e", "a", "d", ">", "<", "b", "o", "d", "y", ">", "<", "h", "1", ">", "f", "o", "o", " ", "b", "a", "r", "<", "/", "h", "1", ">", "<", "/", "b", "o", "d", "y", ">", "<", "/", "h", "t", "m", "l", ">">>,
      <<"a", "b", "c", "<">>, <<"<", "a">>, <<"<", "a", " ", "b">>, <<"<", "/", "a">>, <<"<", "a", ">", "x">>, <<"<", "a", ">", "<", "/", "b", ">">>, <<"<", "/", "a", ">">>, <<"<", "a", " ", "/", " ", "x", ">">>, <<"<", "a", " ", "=", ">">>, <<"<", " ", ">">>,
      <<"<", "/", " ", ">">>, <<"<", "s", "t", "y", "l", "e", ">", "x">>, <<"<", "s", "t", "y", "l", "e", ">", "x", "<">>, <<"<", "s", "t", "y", "l", "e", ">", "<", "/", "s", "t", "y", "l", "e", " ", "x", ">">>, <<"<", "s", "t", "y", "l", "e", ">", "<", "<", "/", "s", "t", "y", "l", "e", ">">>,
      <<"<", "!">>, <<"<", "!", "-", "-", "x">>, <<"<", "!", "x">>, <<"<", "!", "d", "o", "c", "t", "y", "p", "e", " ", "x">>, <<"<", "a", ">", "<", "/", "a", " ", "x", ">">>,
      <<"&", "a", "m", "p", ";", "<", "t", "i", "t", "l", "e", ">", "&", "a", "m", "p", ";", "<", "/", "t", "i", "t", "l", "e", ">", "<", "s", "t", "y", "l", "e", ">", "&", "a", "m", "p", ";", "<", "/", "s", "t", "y", "l", "e", ">", "<", "!", "-", "-", "&", "a", "m", "p", ";", "-", "-", ">", "<", "!", "d", "o", "c", "t", "y", "p", "e", " ", "&", "a", "m", "p", ";", ">">>,
      <<"<", "a", " ", "b", "=", "\"", "&", "a", "m", "p", ";", "\"", " ", "c", "=", "&", "l", "t", ";", " ", "d", ">", "<", "/", "a", ">">>, <<"<", "b", "r", " ", "b", "=", "c", " ", "b", "=", "'", "c", "'", " ", "b", "=", "\"", "c", "\"", ">">>, <<"<", "!", "[", "C", "D", "A", "T", "A", "[", "x", "]", "]", ">">>, <<"a", "b", "c", "<">>, <<"<", "a", ">", "a", "b", "c", "<">>, <<"<", "a", ">", "<", "x">>, <<"<", "s", "t", "y", "l", "e", ">", "<", "/", "b">>, <<"<", "t", "i", "t", "l", "e", ">", "a", "<", "/", "b", " ", "c", "<", "/", "T", "I", "T", "L", "E", ">">>, <<"<", "a", "/", ">", "t">>, <<"<", "a", " ", "/", " ", ">", "t">>, <<"<", "x", "/", ">">>, <<"<", "s", "t", "y", "l", "e", "/", ">", "t">>, <<"<", "t", "i", "t", "l", "e", " ", "/", ">", "t">>, <<"<", "a", " ", "b", "=", "c", "/", ">">>, <<"<", "a", " ", "b", "=", "\"", "c", "\"", "/", ">">> }

\* The concatenations of at most n fragments of F.
RECURSIVE Words(_, _)
Words(F, n) ==
    IF n = 0 THEN {<<>>}
    ELSE {<<>>} \cup {f \o w : f \in F, w \in Words(F, n - 1)}

MaxFrags == 4

\* Whole tags and text: nesting, siblings, matching and other close tags.
TreeFrags == {<<"t">>, <<"<", "a", ">">>, <<"<", "/", "a", ">">>, <<"<", "x", ">">>, <<"<", "/", "X", " ", ">">>, <<"<", "b", "r", ">">>, <<"<", "/", "y", ">">>, <<"<", "y", "/", ">">>}

Init == InitOn(Corpus \cup Words(TreeFrags, MaxFrags))

Spec == Init /\ [][Next]_vars

\* One start tag of each category, spelled piece by piece, at the root and
\* inside an element.
TagNames == {<<"a">>, <<"x">>, <<"b", "r">>, <<"s", "t", "y", "l", "e">>, <<"t", "i", "t", "l", "e">>}
TagFrags == {<<" ", "b">>, <<"=", "c">>, <<"=", "\"", "c", "\"">>, <<"/">>, <<">">>}
TagWraps == {<< <<>>, <<>> >>, << <<"<", "a", ">">>, <<"<", "/", "a", ">">> >>}

InitTag ==
    InitOn(Corpus \cup {w[1] \o <<"<">> \o nm \o f \o w[2] :
                          w \in TagWraps, nm \in TagNames, f \in Words(TagFrags, MaxFrags)})

SpecTag == InitTag /\ [][Next]_vars

\* Raw-text and escapable raw-text elements, close tags in either case,
\* references, and comments and doctypes that hold a reference.
RawFrags == {<<"<", "s", "t", "y", "l", "e", ">">>, <<"<", "t", "i", "t", "l", "e", ">">>, <<"<", "/", "s", "t", "y", "l", "e", ">">>, <<"<", "/", "T", "I", "T", "L", "E", " ", ">">>, <<"<">>, <<"&", "a", "m", "p", ";">>,
             <<"<", "!", "-", "-", "&", "a", "m", "p", ";", "-", "-", ">">>, <<"<", "!", "D", "O", "C", "T", "Y", "P", "E", " ", "&", "a", "m", "p", ";", ">">>}

InitRaw == InitOn(Corpus \cup Words(RawFrags, MaxFrags))

SpecRaw == InitRaw /\ [][Next]_vars

\* Start tags with attributes in mixed letter case: names, bare,
\* single-quoted and double-quoted values (one holding the other quote),
\* blanks and a backtick, on an
\* element closed in another letter case and on a self-closing element.
AttrTags == {<< <<"<", "d", "I", "v">>, <<">", "f", "o", "o", "<", "/", "D", "i", "V", ">">> >>, << <<"<", "X", "-", "y">>, <<"/", ">">> >>}
AttrFrags == {<<" ", "B", "c">>, <<"=", "D", "e">>, <<"=", "'", "F", " ", "g", "'">>, <<"=", "\"", "H", "'", "\"">>, <<" ">>, <<Backtick>>}

InitAttr ==
    InitOn(Corpus \cup {t[1] \o f \o t[2] : t \in AttrTags, f \in Words(AttrFrags, MaxFrags)})

SpecAttr == InitAttr /\ [][Next]_vars

\* "<!" constructs spelled from pieces, at top level and inside an element
\* after some text.
DeclWraps == {<< <<>>, <<>> >>, << <<"<", "a", ">", "t">>, <<"<", "/", "a", ">">> >>}
DeclFrags == {<<"-", "-">>, <<">">>, <<"D", "o", "c", "T", "y", "p", "e">>, <<" ">>, <<"x">>, <<"-">>, <<"<", "!">>}

InitDecl ==
    InitOn(Corpus \cup {w[1] \o <<"<", "!">> \o f \o w[2] : w \in DeclWraps, f \in Words(DeclFrags, MaxFrags)})

SpecDecl == InitDecl /\ [][Next]_vars

\* Parse called again after it returned: a new parser, whose arena is empty,
\* on another input and a root of the caller; the tree of the call before
\* stays with the caller.
MaxCalls == 2
MaxOver == 2

RECURSIVE BrRun(_)
BrRun(k) == IF k = 0 THEN <<>> ELSE <<"<", "b", "r", ">">> \o BrRun(k - 1)

\* Inputs that need more nodes than one block of the arena holds
LongInputs == {BrRun(k) : k \in (arenaSize - 1)..(arenaSize + MaxOver)}

AgainInputs == {<<"t">>, <<"<", "a", ">", "t", "<", "/", "a", ">">>, BrRun(arenaSize + 1)}

ParseAgain ==
    /\ status = "returned"
    /\ Len(old) < MaxCalls - 1
    /\ old' = Append(old, {nodes[m].slot : m \in 2..Len(nodes)})
    /\ input' \in AgainInputs
    /\ text' = input'
    /\ nodes' = <<RootNode>>
    /\ arena' = [block |-> 0, len |-> 0]
    /\ stack' = <<ParseFrame(1, TRUE)>>
    /\ err' = NoErr
    /\ status' = "running"
    /\ eof' = ""
    /\ UNCHANGED heap

NextArena == Next \/ ParseAgain

InitArena == InitOn(Corpus \cup LongInputs)

SpecArena == InitArena /\ [][NextArena]_vars

\* Well-formed documents in canonical spelling: lowercase tags, one space
\* before each attribute, double-quoted values, every element closed.
MaxItems == 3

CanonElems == {<< <<"<", "a", ">">>, <<"<", "/", "a", ">">> >>, << <<"<", "x", " ", "b", "=", "\"", "c", "\"", ">">>, <<"<", "/", "x", ">">> >>}

RECURSIVE Docs(_, _)
Docs(L, n) ==
    IF n = 0 THEN {<<>>}
    ELSE {<<>>}
         \cup {l \o w : l \in L, w \in Docs(L, n - 1)}
         \cup UNION {{e[1] \o u \o e[2] \o w : e \in CanonElems,
                                               u \in Docs(L, i),
                                               w \in Docs(L, n - 1 - i)}
                     : i \in 0..(n - 1)}

\* Leaves that render as they are spelled: text without a byte Render
\* escapes, a reference in its canonical spelling, a void element closed with
\* "/>", raw-text and escapable raw-text elements.
CanonLeaves == {<<"t">>, <<"&", "a", "m", "p", ";">>, <<"<", "b", "r", "/", ">">>, <<"<", "s", "t", "y", "l", "e", ">", "t", "<", "/", "s", "t", "y", "l", "e", ">">>, <<"<", "t", "i", "t", "l", "e", ">", "t", "<", "/", "t", "i", "t", "l", "e", ">">>}
\* A void element written without "/" is in canonical lowercase spelling too.
CanonLeavesAny == CanonLeaves \cup {<<"<", "b", "r", ">">>}

InitRoundTrip == InitOn(Corpus \cup Docs(CanonLeavesAny, MaxItems))

SpecRoundTrip == InitRoundTrip /\ [][Next]_vars

----------------------------------------------------------------------------
(* Vocabulary of the properties *)

\* Parse is over: it returned, or the run ended in a run-time panic.
Done == status # "running"
\* Parse returned nil.
Ok == status = "returned" /\ err = NoErr
\* Parse returned an error through its error return.
Failed == status = "returned" /\ err # NoErr

\* input[a,b), for offsets 0 <= a <= b <= len(input)
Src(a, b) == SubSeq(input, a + 1, b)

----------------------------------------------------------------------------
(* C1 *)

\* 1-based position of the last '<' of the input, 0 if there is none
LastLt ==
    LET S == {i \in 1..Len(input) : input[i] = "<"}
    IN  IF S = {} THEN 0 ELSE CHOOSE i \in S : \A j \in S : j <= i

\* the input from its last '<' on
LastTag == SubSeq(input, LastLt, Len(input))

NameBytes(t) == t # <<>> /\ \A i \in 1..Len(t) : t[i] \notin identInvalidF \cup {"<"}

EndsInOpenName ==
    Len(LastTag) >= 2 /\ LastTag[2] \notin {"/", "!"} /\ NameBytes(From(LastTag, 1))

EndsInAttrName ==
    LET k == IndexFunc(From(LastTag, 1), whitespaceF)
    IN  /\ Len(LastTag) >= 2 /\ LastTag[2] \notin {"/", "!"}
        /\ k > 0
        /\ NameBytes(SubSeq(LastTag, 2, k + 1))
        /\ NameBytes(skipSpace(From(LastTag, k + 1)))

EndsInCloseName == Len(LastTag) >= 3 /\ LastTag[2] = "/" /\ NameBytes(From(LastTag, 2))

EndsInDecl ==
    Len(LastTag) >= 3 /\ LastTag[2] = "!" /\ \A i \in 1..Len(LastTag) : LastTag[i] # ">"

\* The input ends inside a tag name, an attribute name, a close-tag name, a
\* comment or a declaration, and nothing before that construct is quoted.
Truncated ==
    /\ LastLt > 0
    /\ \A i \in 1..Len(input) : input[i] \notin {"\"", "'"}
    /\ EndsInOpenName \/ EndsInAttrName \/ EndsInCloseName \/ EndsInDecl

\* C1: on an input that ends inside an opening tag name, an attribute name,
\* a close-tag name, a comment or a "<!" declaration, Parse returns an error
\* through its error return: it neither succeeds nor panics.
C1_TruncationReturnsError == Done /\ Truncated => Failed

\* The part of C1 that the code does keep: such an input never succeeds.
C1_TruncationNeverSucceeds == Done /\ Truncated => ~Ok

\* A truncated input on which Parse is over.
C1_Witness == Done /\ Truncated /\ input = <<"<", "a">>

----------------------------------------------------------------------------
(* C2 *)

\* Canonical documents that spell every void element with "/>" and whose
\* text holds no byte that Render escapes.
CanonDocs == Docs(CanonLeaves, MaxItems)

\* Canonical documents: lowercase tags, double-quoted attribute values, no
\* self-closing shorthand on a non-void element.
CanonDocsAny == Docs(CanonLeavesAny, MaxItems)

----------------------------------------------------------------------------
(* C3 *)

Elements == {n \in 1..Len(nodes) : nodes[n].Type = "ElementNode"}

\* The elements whose body was handed to parseRaw.
RawEntered == {n \in Elements : nodes[n].via \in {"catRaw", "catEscapableRaw"}}

\* At offset k the input holds a close tag for name: "</", the name in any
\* letter case, optional whitespace, '>'.
IsCloseAt(k, name) ==
    LET t == From(input, k)
        rest == skipSpace(From(t, 2 + Len(name)))
    IN  /\ HasPrefix(t, <<"<", "/">>)
        /\ Len(t) >= 2 + Len(name)
        /\ asciiLower(SubSeq(t, 3, 2 + Len(name))) = name
        /\ rest # <<>>
        /\ rest[1] = ">"

\* Offset of the first close tag for element n at or after its start tag's
\* '>', or -1.
FirstClose(n) ==
    LET S == {k \in nodes[n].tagEnd..Len(input) : IsCloseAt(k, nodes[n].Data)}
    IN  IF S = {} THEN -1 ELSE Min(S)

\* The body of element n is input[tagEnd,k), delivered as its Text child.
RawBodyIs(n, k) ==
    /\ nodes[n].bodyEnd = k
    /\ IF k = nodes[n].tagEnd
       THEN nodes[n].Children = <<>>
       ELSE /\ Len(nodes[n].Children) = 1
            /\ LET c == nodes[nodes[n].Children[1]]
               IN  /\ c.Type = "TextNode"
                   /\ c.from = nodes[n].tagEnd
                   /\ c.to = k
                   /\ nodes[n].via = "catRaw" => c.Data = Src(nodes[n].tagEnd, k)

\* C3: the body of an element scanned in raw-text mode ends at the first
\* close tag for that element (every '<' of the body is tried), and its Text
\* child is made of exactly the input bytes between the start tag's '>' and
\* that close tag.
C3_RawBodyEndsAtFirstClose ==
    Done => \A n \in RawEntered : FirstClose(n) >= 0 => RawBodyIs(n, FirstClose(n))

\* A raw-text body with a close tag behind a '<', parsed to the end.
C3_Witness ==
    /\ Done
    /\ input = <<"<", "s", "t", "y", "l", "e", ">", "<", "<", "/", "s", "t", "y", "l", "e", ">">>
    /\ \E n \in RawEntered : FirstClose(n) = 8

----------------------------------------------------------------------------
(* C4 *)

RawNames == {<<"s", "c", "r", "i", "p", "t">>, <<"s", "t", "y", "l", "e">>, <<"t", "e", "x", "t", "a", "r", "e", "a">>, <<"t", "i", "t", "l", "e">>}

\* Element n has a body: it was not self-closing.
HasBody(n) == nodes[n].via # "selfClosing"

\* C4: after a successful Parse an element named script, style, textarea or
\* title has only Text children and at most one; no node at all was made
\* from a part of its body other than that child, and a non-empty body is
\* exactly one Text child spanning it.
C4_RawChildren ==
    Ok => \A n \in Elements :
            nodes[n].Data \in RawNames =>
              /\ Len(nodes[n].Children) <= 1
              /\ \A i \in 1..Len(nodes[n].Children) :
                    nodes[nodes[n].Children[i]].Type = "TextNode"
              /\ \A m \in 1..Len(nodes) :
                    (nodes[n].tagEnd <= nodes[m].from /\ nodes[m].from < nodes[n].bodyEnd)
                      => nodes[n].Children = <<m>>
              /\ (HasBody(n) /\ nodes[n].bodyEnd > nodes[n].tagEnd) =>
                    /\ Len(nodes[n].Children) = 1
                    /\ nodes[nodes[n].Children[1]].from = nodes[n].tagEnd
                    /\ nodes[nodes[n].Children[1]].to = nodes[n].bodyEnd

\* A style element whose body spells a start tag and a comment, parsed.
C4_Witness ==
    /\ Ok
    /\ input = <<"<", "s", "t", "y", "l", "e", ">", "<", "t", "i", "t", "l", "e", ">", "<", "!", "-", "-", "&", "a", "m", "p", ";", "-", "-", ">", "<", "/", "s", "t", "y", "l", "e", ">">>
    /\ \E n \in Elements :
          /\ nodes[n].Data = <<"s", "t", "y", "l", "e">>
          /\ Len(nodes[n].Children) = 1
          /\ nodes[nodes[n].Children[1]].Data = <<"<", "t", "i", "t", "l", "e", ">", "<", "!", "-", "-", "&", "a", "m", "p", ";", "-", "-", ">">>

----------------------------------------------------------------------------
(* C5 *)

TextNodes == {n \in 1..Len(nodes) : nodes[n].Type = "TextNode"}

\* The payload of a comment or doctype node: its span without the opening
\* "<!--", "<!" or "<!doctype" and blanks, and without the closing "-->"
\* or ">".
Payload(n) ==
    LET s == Src(nodes[n].from, nodes[n].to)
    IN  IF nodes[n].Type = "DoctypeNode"
        THEN LET t == skipSpace(From(s, 9)) IN Upto(t, Len(t) - 1)
        ELSE IF HasPrefix(s, <<"<", "!", "-", "-">>) THEN SubSeq(s, 5, Len(s) - 3)
        ELSE SubSeq(s, 3, Len(s) - 1)

\* C5: a Text node made in tag mode or from the body of a textarea or title
\* element holds the decoded bytes of its source; a Text node made from the
\* body of a script or style element, every Comment and Doctype node, and
\* every attribute value, holds the bytes of its source unchanged.
C5_DecodingOnlyOnText ==
    Done => \A n \in 1..Len(nodes) :
        /\ (n \in TextNodes /\ nodes[n].Parent # 0
              /\ nodes[nodes[n].Parent].Data \notin {<<"s", "c", "r", "i", "p", "t">>, <<"s", "t", "y", "l", "e">>})
             => nodes[n].Data = UnescapeString(Src(nodes[n].from, nodes[n].to))
        /\ (n \in TextNodes /\ nodes[n].Parent # 0
              /\ nodes[nodes[n].Parent].Data \in {<<"s", "c", "r", "i", "p", "t">>, <<"s", "t", "y", "l", "e">>})
             => nodes[n].Data = Src(nodes[n].from, nodes[n].to)
        /\ (nodes[n].Type \in {"CommentNode", "DoctypeNode"} /\ nodes[n].Parent # 0)
             => nodes[n].Data = Payload(n)
        /\ \A i \in 1..Len(nodes[n].Attr) :
              LET a == nodes[n].Attr[i] IN a.Val = Src(a.at, a.at + Len(a.Val))

\* A reference in tag-mode text, in a title, in a style, in a comment and in
\* a doctype: the first two decoded, the other three not.  (The corpus input
\* with references in attribute values is another state the formula covers.)
C5_Witness ==
    /\ Ok
    /\ \E n \in TextNodes : nodes[n].via = "text" /\ nodes[n].Data = <<"&">>
    /\ \E n \in TextNodes : nodes[n].via = "escapable" /\ nodes[n].Data = <<"&">>
    /\ \E n \in TextNodes : nodes[n].via = "raw" /\ nodes[n].Data = <<"&", "a", "m", "p", ";">>
    /\ \E n \in 1..Len(nodes) : nodes[n].Type = "CommentNode" /\ nodes[n].Data = <<"&", "a", "m", "p", ";">>
    /\ \E n \in 1..Len(nodes) : nodes[n].Type = "DoctypeNode" /\ nodes[n].Data = <<"&", "a", "m", "p", ";">>

----------------------------------------------------------------------------
(* C6 *)

\* The elements whose start tag is complete and whose body has not ended.
Open == {n \in Elements : nodes[n].tagEnd >= 0 /\ nodes[n].bodyEnd < 0}

\* The innermost open element: the open element that starts last.
Innermost == CHOOSE n \in Open : \A m \in Open : nodes[m].from <= nodes[n].from

\* Offset of the next '<' of the unparsed input (only used when there is one)
NextLt == Off(text) + IndexByte(text, "<")

\* Length of the name of a close tag at offset k: the run of name bytes
\* after "</" (-1 if it runs to the end of input)
CloseNameLen(k) == IndexFunc(From(input, k + 2), identInvalidF)

\* The case-folded name of the close tag at offset k
CloseName(k) == asciiLower(Src(k + 2, k + 2 + CloseNameLen(k)))

\* At offset k the input holds a complete close tag: "</", a name, optional
\* whitespace, '>'.
CompleteClose(k) ==
    /\ HasPrefix(From(input, k), <<"<", "/">>)
    /\ CloseNameLen(k) > 0
    /\ IsCloseAt(k, CloseName(k))

\* Offset just after the close tag at offset k
CloseEnd(k) == k + IndexByte(From(input, k), ">") + 1

NormalBody(n) == nodes[n].via \in {"catNormal", "catTemplate"}

\* What one step does with a complete close tag met in tag mode.
C6_AtCloseTag ==
    (InParse /\ IndexByte(text, "<") >= 0 /\ CompleteClose(NextLt)) =>
        IF Open = {}
        THEN err' # NoErr
        ELSE IF CloseName(NextLt) = nodes[Innermost].Data
        THEN /\ err' = NoErr
             /\ nodes'[Innermost].bodyEnd = NextLt
             /\ nodes'[Innermost].to = CloseEnd(NextLt)
             /\ text' = From(input, CloseEnd(NextLt))
        ELSE /\ err' = ErrUnclosed(nodes[Innermost].Data)
             /\ nodes'[Innermost].bodyEnd < 0

\* An element with a tag-mode body is closed only where a close tag of its
\* own name stands, and only while it is the innermost open element.
C6_ClosedOnlyByOwnTag ==
    \A n \in Open :
        (NormalBody(n) /\ nodes'[n].bodyEnd >= 0) =>
            /\ n = Innermost
            /\ InParse
            /\ nodes'[n].bodyEnd = NextLt
            /\ IsCloseAt(NextLt, nodes[n].Data)

\* An error, once raised, is the error Parse returns.
ErrorIsReturned ==
    err # NoErr => /\ err' = err
                   /\ status' = (IF stack' = <<>> THEN "returned" ELSE "running")
                   /\ Len(stack') < Len(stack)

\* C6: in tag mode an element is closed only by a close tag of its own
\* case-folded name, optional whitespace and '>'; a complete close tag with
\* another name raises the unclosed-element error naming the innermost open
\* element, a complete close tag at the document root raises an error, and
\* a raised error is what Parse returns.
C6_CloseTagMatch ==
    [][C6_AtCloseTag /\ C6_ClosedOnlyByOwnTag /\ ErrorIsReturned]_vars

\* x closed by </X >, then </y> met inside a: the error names a.
C6_Witness ==
    /\ status = "returned"
    /\ input = <<"<", "a", ">", "<", "x", ">", "<", "/", "X", " ", ">", "<", "/", "y", ">">>
    /\ err = ErrUnclosed(<<"a">>)
    /\ \E n \in Elements : nodes[n].Data = <<"x">> /\ nodes[n].bodyEnd = 6 /\ nodes[n].to = 11

----------------------------------------------------------------------------
(* C7 *)

\* The part of the input between the start tag and the close tag of node p;
\* the whole input for the root.
BodyFrom(p) == IF p = 1 THEN 0 ELSE nodes[p].tagEnd
BodyTo(p) == IF p = 1 THEN Len(input) ELSE nodes[p].bodyEnd

\* p is m or an ancestor of m
RECURSIVE IsAncestor(_, _)
IsAncestor(p, m) ==
    IF m = p THEN TRUE
    ELSE IF m = 0 \/ nodes[m].Parent = 0 THEN FALSE
    ELSE IsAncestor(p, nodes[m].Parent)

\* The spans of the children of p, in order, tile the body of p.
Tiled(p) ==
    LET cs == nodes[p].Children
    IN  IF cs = <<>> THEN BodyFrom(p) = BodyTo(p)
        ELSE /\ nodes[cs[1]].from = BodyFrom(p)
             /\ nodes[cs[Len(cs)]].to = BodyTo(p)
             /\ \A i \in 1..(Len(cs) - 1) : nodes[cs[i]].to = nodes[cs[i + 1]].from

\* C7: after a successful Parse every node other than the root is the child
\* of one node and stands for a non-empty span of the input; the spans of a
\* node's children, in child order, follow one another from the end of its
\* start tag to its close tag (so children are in increasing source order
\* and what follows a close tag is a later sibling); and the nodes whose
\* span lies in an element's body are exactly its descendants.
C7_SourceOrder ==
    Ok => /\ \A n \in 2..Len(nodes) :
                /\ nodes[n].Parent # 0
                /\ \E i \in 1..Len(nodes[nodes[n].Parent].Children) :
                      nodes[nodes[n].Parent].Children[i] = n
                /\ 0 <= nodes[n].from /\ nodes[n].from < nodes[n].to
                /\ nodes[n].to <= Len(input)
          /\ \A p \in 1..Len(nodes) :
                /\ Tiled(p)
                /\ \A i \in 1..Len(nodes[p].Children) : nodes[nodes[p].Children[i]].Parent = p
                /\ \A i, j \in 1..Len(nodes[p].Children) :
                      i < j => nodes[nodes[p].Children[i]].from < nodes[nodes[p].Children[j]].from
                /\ \A m \in 2..Len(nodes) :
                      (m # p /\ IsAncestor(p, m))
                        <=> (BodyFrom(p) <= nodes[m].from /\ nodes[m].to <= BodyTo(p))

\* The siblings test: text, nested elements and an element after a close
\* tag, three levels deep.
C7_Witness ==
    /\ Ok
    /\ input = <<"1", "<", "a", ">", "2", "<", "a", ">", "3", "<", "/", "a", ">", "<", "/", "a", ">", "<", "a", ">", "<", "/", "a", ">">>
    /\ Len(nodes[1].Children) = 3
    /\ Len(nodes) = 7

----------------------------------------------------------------------------
(* C8 *)

VoidTags == {<<"a", "r", "e", "a">>, <<"b", "a", "s", "e">>, <<"b", "r">>, <<"c", "o", "l">>, <<"e", "m", "b", "e", "d">>, <<"h", "r">>, <<"i", "m", "g">>, <<"i", "n", "p", "u", "t">>,
             <<"l", "i", "n", "k">>, <<"m", "e", "t", "a">>, <<"p", "a", "r", "a", "m">>, <<"s", "o", "u", "r", "c", "e">>, <<"t", "r", "a", "c", "k">>, <<"w", "b", "r">>}

\* The elements with a void name whose start tag ended in '>' without '/'.
VoidOpened ==
    {n \in Elements : nodes[n].Data \in VoidTags /\ nodes[n].tagEnd >= 0 /\ HasBody(n)}

\* Element n has no body: it has no children, its span ends with its start
\* tag, no call of parse or parseRaw is made for it, and every node made
\* from input after its start tag is outside it, the node that starts right
\* there being a child of n's parent.
NoBody(n) ==
    /\ nodes[n].Children = <<>>
    /\ nodes[n].bodyEnd = nodes[n].tagEnd
    /\ nodes[n].to = nodes[n].tagEnd
    /\ \A i \in 1..Len(stack) :
          stack[i].fn \in {"parse", "parseRaw"} => stack[i].parent # n
    /\ \A m \in 1..Len(nodes) :
          /\ nodes[m].Parent # n
          /\ (nodes[m].from = nodes[n].to /\ nodes[m].Parent # 0)
                => nodes[m].Parent = nodes[n].Parent

\* C8: an element with one of the 14 void names, opened without '/', has no
\* children and its span ends at the '>' of its start tag; no call of parse
\* or parseRaw is ever made for its body; and every node made from input
\* after that '>' is outside it, the node that starts right there being a
\* child of the void element's parent.
C8_VoidNoBody == \A n \in VoidOpened : NoBody(n)

\* A void element inside an element, followed by text: the text is a child
\* of the outer element.
C8_Witness ==
    /\ Ok
    /\ input = <<"<", "a", ">", "<", "b", "r", ">", "t", "<", "/", "a", ">">>
    /\ \E n \in VoidOpened, m \in TextNodes :
          /\ nodes[n].Data = <<"b", "r">>
          /\ nodes[m].from = nodes[n].to
          /\ nodes[m].Parent = nodes[n].Parent
          /\ nodes[nodes[n].Parent].Data = <<"a">>

----------------------------------------------------------------------------
(* C9 *)

\* The elements whose start tag the code has read to its '>'.
Tagged == {n \in Elements : nodes[n].tagEnd >= 0}

\* 1-based position of the last '/' of the start tag of n, 0 if it has none
LastSlash(n) ==
    LET S == {i \in (nodes[n].from + 1)..nodes[n].tagEnd : input[i] = "/"}
    IN  IF S = {} THEN 0 ELSE CHOOSE i \in S : \A j \in S : j <= i

\* The start tag of n ends with '/', optional whitespace and '>'.
EndsWithSlash(n) ==
    /\ LastSlash(n) > 0
    /\ \A i \in (LastSlash(n) + 1)..(nodes[n].tagEnd - 1) : input[i] \in whitespaceF

\* 1-based position of the last byte before position i that cannot be part
\* of an unquoted attribute value
ValueStart(i) ==
    CHOOSE j \in 1..(i - 1) :
        /\ input[j] \in unquotInvalidF
        /\ \A k \in (j + 1)..(i - 1) : input[k] \notin unquotInvalidF

\* 1-based position of the last byte at or before position j that is not
\* whitespace
BeforeSpace(j) ==
    CHOOSE k \in 1..j :
        /\ input[k] \notin whitespaceF
        /\ \A l \in (k + 1)..j : input[l] \in whitespaceF

\* The '/' at position i continues or starts an unquoted attribute value:
\* only bytes of such a value, then only whitespace, lie between it and '='.
InUnquotedValue(i) == input[BeforeSpace(ValueStart(i))] = "="

\* Element n is self-closing.
SelfClosed(n) == nodes[n].via = "selfClosing" /\ NoBody(n)

\* C9 as stated: every element whose start tag ends with '/', optional
\* whitespace and '>' is self-closing, whatever its name: no children, no
\* call of parse or parseRaw for it, parsing goes on in the parent.
C9_SelfClosingAsStated == \A n \in Tagged : EndsWithSlash(n) => SelfClosed(n)

\* The tag scanner stands at a '/' between the attributes of a start tag,
\* and the next non-whitespace byte is there and is not '>'.
AtStraySlash ==
    /\ InStartTag
    /\ text # <<>>
    /\ text[1] = "/"
    /\ skipSpace(From(text, 1)) # <<>>
    /\ skipSpace(From(text, 1))[1] # ">"

\* C9, amended: every element whose start tag ends with '/', optional
\* whitespace and '>', where that '/' is not part of an unquoted attribute
\* value, is self-closing whatever its name; and a '/' met between the
\* attributes of a start tag whose next non-whitespace byte is not '>'
\* raises the error "Unexpected '/' in opening tag".
C9_SelfClosing ==
    /\ [](\A n \in Tagged :
            (EndsWithSlash(n) /\ ~InUnquotedValue(LastSlash(n))) => SelfClosed(n))
    /\ [][AtStraySlash => err' = ErrSlash(nodes[Top.node].Data)]_vars

\* A self-closed style element with an attribute, inside an element.
C9_Witness ==
    /\ Ok
    /\ input = <<"<", "a", ">", "<", "s", "t", "y", "l", "e", " ", "b", "=", "\"", "c", "\"", "/", ">", "<", "/", "a", ">">>
    /\ \E n \in Tagged :
          /\ nodes[n].Data = <<"s", "t", "y", "l", "e">>
          /\ EndsWithSlash(n) /\ ~InUnquotedValue(LastSlash(n))
          /\ SelfClosed(n)
          /\ Len(nodes[n].Attr) = 1
          /\ nodes[nodes[n].Parent].Data = <<"a">>

----------------------------------------------------------------------------
(* C10 *)

\* parse or parseRaw looks for the next '<' and there is none.
AtLastText == (InParse \/ InRaw) /\ IndexByte(text, "<") < 0

\* The last child of the root in the next state is the Text node made of the
\* rest of the input, decoded.
RestIsLastChild ==
    /\ Len(nodes') = Len(nodes) + 1
    /\ nodes'[1].Children = Append(nodes[1].Children, Len(nodes'))
    /\ LET n == nodes'[Len(nodes')]
       IN  /\ n.Type = "TextNode"
           /\ n.Data = UnescapeString(text)
           /\ n.Parent = 1
           /\ n.from = Off(text)
           /\ n.to = Len(input)

C10_AtLastText ==
    AtLastText =>
        IF Open = {}
        THEN /\ status' = "returned"
             /\ err' = NoErr
             /\ IF text = <<>> THEN nodes' = nodes ELSE RestIsLastChild
        ELSE /\ err' = ErrUnclosed(nodes[Innermost].Data)
             /\ nodes' = nodes

\* C10: when no '<' is left, at the document root the rest of the input
\* becomes the last Text child, decoded, and Parse returns nil; inside an
\* open element, in tag mode and in raw-text mode alike, the unclosed-element
\* error naming the innermost open element is raised, and it is the error
\* Parse returns.
C10_NoMoreTags == [][C10_AtLastText /\ ErrorIsReturned]_vars

\* The input ends in the text of x, which is open inside a.
C10_Witness ==
    /\ status = "returned"
    /\ input = <<"<", "a", ">", "<", "x", ">", "t">>
    /\ err = ErrUnclosed(<<"x">>)
    /\ Open # {}
    /\ nodes[Innermost].Data = <<"x">>

----------------------------------------------------------------------------
(* C11 *)

\* t with 'A'..'Z' replaced by 'a'..'z' and every other byte kept
FoldAZ(t) ==
    [i \in 1..Len(t) |->
        IF \E k \in 1..26 : Upper[k] = t[i]
        THEN Lower[CHOOSE k \in 1..26 : Upper[k] = t[i]]
        ELSE t[i]]

\* Offset of the first byte of the tag name of element n
NameAt(n) == nodes[n].from + 1 + IndexFuncNot(From(input, nodes[n].from + 1), whitespaceF)

\* The tag name of element n as the input spells it
NameSrc(n) == Src(NameAt(n), NameAt(n) + Len(nodes[n].Data))

\* The elements whose body a close tag ended
Closed == {n \in Elements : nodes[n].to > nodes[n].bodyEnd /\ nodes[n].bodyEnd >= 0}

\* C11: the name of an element is its tag name in the input with A-Z folded
\* to lowercase and every other byte unchanged, likewise the name of each of
\* its attributes; the name in the close tag that closed an element folds
\* to the element's name; an attribute value is the bytes of the input,
\* unfolded.
C11_CaseFolding ==
    \A n \in Elements :
        /\ nodes[n].Data = FoldAZ(NameSrc(n))
        /\ \A i \in 1..Len(nodes[n].Attr) :
              LET a == nodes[n].Attr[i]
              IN  /\ a.Key = FoldAZ(Src(a.keyAt, a.keyAt + Len(a.Key)))
                  /\ a.Val = Src(a.at, a.at + Len(a.Val))
        /\ n \in Closed =>
              FoldAZ(Src(nodes[n].bodyEnd + 2, nodes[n].bodyEnd + 2 + Len(nodes[n].Data)))
                = nodes[n].Data

\* <dIv Bc=De>foo</DiV> parses to one element div with attribute bc = De.
C11_Witness ==
    /\ Ok
    /\ input = <<"<", "d", "I", "v", " ", "B", "c", "=", "D", "e", ">", "f", "o", "o", "<", "/", "D", "i", "V", ">">>
    /\ Len(nodes[1].Children) = 1
    /\ \E n \in Closed :
          /\ nodes[n].Data = <<"d", "i", "v">>
          /\ NameSrc(n) = <<"d", "I", "v">>
          /\ Src(nodes[n].bodyEnd + 2, nodes[n].bodyEnd + 5) = <<"D", "i", "V">>
          /\ Len(nodes[n].Attr) = 1
          /\ nodes[n].Attr[1].Key = <<"b", "c">>
          /\ nodes[n].Attr[1].Val = <<"D", "e">>

----------------------------------------------------------------------------
(* C12 *)

\* The byte at offset o of the input, "" at and after its end
Byte(o) == IF o < Len(input) THEN input[o + 1] ELSE ""

\* The first offset at or after o that holds no whitespace
SkipWs(o) ==
    CHOOSE p \in o..Len(input) :
        /\ Byte(p) \notin whitespaceF
        /\ \A k \in o..(p - 1) : Byte(k) \in whitespaceF

\* The first offset at or after o that holds a byte of B, the length of the
\* input if there is none
RunEnd(o, B) ==
    CHOOSE p \in o..Len(input) :
        /\ p < Len(input) => Byte(p) \in B
        /\ \A k \in o..(p - 1) : Byte(k) \notin B

Quotes == {"'", "\""}
\* The bytes that end an attribute name, and those that end a bare value
NameStop == whitespaceF \cup Quotes \cup {NUL, "=", "/", ">"}
BareStop == whitespaceF \cup Quotes \cup {NUL, "=", "<", ">"}

\* The attributes spelled in the input from offset o of a start tag on, as
\* (name, value) pairs in source order: a name, then either no '=' (empty
\* value), or '=' and a quoted value (the bytes between the quote and the
\* next quote of the same kind) or a bare value (the maximal run without a
\* byte of BareStop).  The list ends at '/', '>', a byte that starts no
\* name, or a name or value that the end of the input cuts short.
RECURSIVE SpelledAttrs(_)
SpelledAttrs(o) ==
    LET p == SkipWs(o)
        e == RunEnd(p, NameStop)
        q == SkipWs(e)
        v == SkipWs(q + 1)
        close == RunEnd(v + 1, {Byte(v)})
        bareEnd == RunEnd(v, BareStop)
        key == FoldAZ(Src(p, e))
    IN  IF Byte(p) \in {"/", ">", ""} \/ e = p \/ e = Len(input) \/ q = Len(input)
        THEN <<>>
        ELSE IF Byte(q) # "="
        THEN << <<key, <<>> >> >> \o SpelledAttrs(e)
        ELSE IF Byte(v) \in Quotes
        THEN IF close = Len(input) THEN <<>>
             ELSE << <<key, Src(v + 1, close)>> >> \o SpelledAttrs(close + 1)
        ELSE IF bareEnd = Len(input) THEN <<>>
             ELSE << <<key, Src(v, bareEnd)>> >> \o SpelledAttrs(bareEnd)

\* The attribute list of element n as (name, value) pairs
Pairs(n) == [i \in 1..Len(nodes[n].Attr) |-> <<nodes[n].Attr[i].Key, nodes[n].Attr[i].Val>>]

IsPrefix(s, t) == Len(s) <= Len(t) /\ s = SubSeq(t, 1, Len(s))

\* C12: the attribute list of an element whose start tag was read is the
\* list of the attributes spelled in that start tag, one pair for each, in
\* source order, a repeated name kept each time, with the value between the
\* quotes, the bare run, or the empty value; while the start tag is being
\* read, and after a fault in it, the list is the beginning of that list.
C12_AttributeList ==
    \A n \in Elements :
        LET spelled == SpelledAttrs(NameAt(n) + Len(nodes[n].Data))
        IN  /\ IsPrefix(Pairs(n), spelled)
            /\ n \in Tagged => Pairs(n) = spelled

\* <br b=c b='c' b="c"> has three attributes, the same pair three times.
C12_Witness ==
    /\ Ok
    /\ input = <<"<", "b", "r", " ", "b", "=", "c", " ", "b", "=", "'", "c", "'", " ", "b", "=", "\"", "c", "\"", ">">>
    /\ \E n \in Tagged :
          /\ Pairs(n) = << <<<<"b">>, <<"c">>>>, <<<<"b">>, <<"c">>>>, <<<<"b">>, <<"c">>>> >>
          /\ nodes[n].Attr[1].kind = "bare"
          /\ nodes[n].Attr[2].kind = "quoted"
          /\ nodes[n].Attr[3].kind = "quoted"
          /\ input[nodes[n].Attr[2].at] = "'"
          /\ input[nodes[n].Attr[3].at] = "\""

----------------------------------------------------------------------------
(* C13 *)

\* The first offset at or after o where the bytes of sep start, the length
\* of the input if there is none
FindFrom(o, sep) ==
    LET S == {p \in o..(Len(input) - Len(sep)) : Src(p, p + Len(sep)) = sep}
    IN  IF S = {} THEN Len(input) ELSE Min(S)

\* The "<!" construct at offset k, read off the input: its kind, the span
\* [from, to) of its payload and the offset end after its closing bytes;
\* term tells whether its closing bytes are there.
DeclAt(k) ==
    LET after == k + 2
        idEnd == RunEnd(after, NameStop)
        dfrom == SkipWs(idEnd)
    IN  IF after + 2 <= Len(input) /\ Src(after, after + 2) = <<"-", "-">>
        THEN [ty |-> "CommentNode", from |-> after + 2, to |-> FindFrom(after + 2, <<"-", "-", ">">>),
              end |-> FindFrom(after + 2, <<"-", "-", ">">>) + 3,
              term |-> FindFrom(after + 2, <<"-", "-", ">">>) < Len(input)]
        ELSE IF FoldAZ(Src(after, idEnd)) = <<"d", "o", "c", "t", "y", "p", "e">>
        THEN [ty |-> "DoctypeNode", from |-> dfrom, to |-> RunEnd(dfrom, {">"}),
              end |-> RunEnd(dfrom, {">"}) + 1,
              term |-> RunEnd(dfrom, {">"}) < Len(input)]
        ELSE [ty |-> "CommentNode", from |-> after, to |-> RunEnd(after, {">"}),
              end |-> RunEnd(after, {">"}) + 1,
              term |-> RunEnd(after, {">"}) < Len(input)]

\* parse is about to read a "<!": the next '<' of the unparsed input is
\* followed by '!'.
C13_AtDecl ==
    /\ InParse
    /\ IndexByte(text, "<") >= 0
    /\ Byte(NextLt + 1) = "!"

\* The nodes that a step made
Made == {n \in 1..Len(nodes') : n > Len(nodes)}

\* C13 at a terminated construct: the step makes exactly one node from it,
\* of the kind and with the payload that the input spells, as the last
\* child of the current parent, and goes on after the closing bytes.
C13_OneNode ==
    LET d == DeclAt(NextLt)
        n == Len(nodes')
    IN  /\ {m \in Made : nodes'[m].from >= NextLt} = {n}
        /\ \A m \in Made : m # n => nodes'[m].Type = "TextNode" /\ nodes'[m].to = NextLt
        /\ nodes'[n].Type = d.ty
        /\ nodes'[n].Data = Src(d.from, d.to)
        /\ nodes'[n].Parent = Top.parent
        /\ nodes'[Top.parent].Children # <<>>
        /\ nodes'[Top.parent].Children[Len(nodes'[Top.parent].Children)] = n
        /\ text' = From(input, d.end)
        /\ status' = "running" /\ err' = NoErr /\ stack' = stack

\* C13 at "<!" with nothing after it: the step raises the end-of-file error
\* and makes no node from it.
C13_Eof ==
    /\ err' = ErrEOFComment
    /\ \A m \in Made : nodes'[m].Type = "TextNode" /\ nodes'[m].to = NextLt
    /\ Len(stack') < Len(stack)

\* C13: every terminated "<!" construct gives exactly one node under the
\* current parent: a Comment with the bytes up to the first "-->" if "--"
\* follows, else a Doctype with the bytes after the keyword and blanks up to
\* '>' if the next name reads doctype in any letter case, else a Comment with
\* the bytes after "<!" up to '>'; "<!" at the end of the input is the
\* unexpected-end-of-file error, passed up until Parse returns it.
C13_Declarations ==
    [][/\ C13_AtDecl /\ DeclAt(NextLt).term => C13_OneNode
       /\ C13_AtDecl /\ NextLt + 2 = Len(input) => C13_Eof
       /\ ErrorIsReturned]_vars

\* <a>t<!DocType x></a> parsed: a has the Text t and a Doctype x.
C13_Witness ==
    /\ Ok
    /\ input = <<"<", "a", ">", "t", "<", "!", "D", "o", "c", "T", "y", "p", "e", " ", "x", ">", "<", "/", "a", ">">>
    /\ \E n \in 1..Len(nodes) :
          /\ nodes[n].Type = "DoctypeNode"
          /\ nodes[n].Data = <<"x">>
          /\ nodes[n].Parent \in Elements
          /\ Len(nodes[nodes[n].Parent].Children) = 2
          /\ nodes[nodes[n].Parent].Children[2] = n

----------------------------------------------------------------------------
(* C14 *)

\* The arena slots of the nodes of this parse (the root is the caller's)
Slots == {nodes[m].slot : m \in 2..Len(nodes)}

\* The arena slots of the trees of the earlier calls of Parse
OldSlots == UNION {old[i] : i \in 1..Len(old)}

\* Node m, just made, is as newNode returned it but for what the caller of
\* newNode assigned in the same step: Type, Data, DataAtom and Parent.
ZeroBut(m) ==
    /\ nodes'[m].Attr = <<>>
    /\ nodes'[m].Children = <<>>
    /\ nodes'[m].Type # "ElementNode" => nodes'[m].DataAtom = NoAtom

\* C14, one step: each node the step makes lies in a slot that holds no
\* node of this parse and none of an earlier parse, was zero when handed
\* out, and no two nodes of the step share a slot; a new call of Parse
\* starts with an empty arena.
C14_Step ==
    /\ Len(nodes') > Len(nodes) =>
          \A m \in Made :
              /\ nodes'[m].slot \notin Slots \cup OldSlots
              /\ \A k \in Made : k # m => nodes'[k].slot # nodes'[m].slot
              /\ ZeroBut(m)
    /\ Len(old') > Len(old) => arena'.len = 0 /\ nodes' = <<RootNode>>

\* The trees of this and of the earlier parses share no slot.
C14_Disjoint ==
    /\ Slots \cap OldSlots = {}
    /\ \A m, k \in 2..Len(nodes) : nodes[m].slot = nodes[k].slot => m = k

\* C14: no slot is handed out twice, in one parse or across parses, every
\* slot is zero when handed out, each Parse starts with an empty arena and
\* the trees of two parses share no slot.
C14_FreshSlots == []C14_Disjoint /\ [][C14_Step]_vars

\* A second parse that needed a second block, after a first parse that did:
\* four blocks made, all slots distinct.
C14_Witness ==
    /\ Ok
    /\ Len(old) = 1
    /\ Cardinality(old[1]) > arenaSize
    /\ Len(nodes) > arenaSize + 1
    /\ heap = 4
    /\ Cardinality(Slots \cup OldSlots) = Cardinality(old[1]) + Len(nodes) - 1

----------------------------------------------------------------------------
(* C15 *)

\* Offset after the name that follows the "</" at offset k
CloseNameEnd(k) == RunEnd(k + 2, NameStop)

\* parseRaw is about to read "</" followed by a non-empty name that is not
\* the name of the element being scanned.
C15_AtMismatch ==
    /\ InRaw
    /\ IndexByte(text, "<") >= 0
    /\ Byte(NextLt + 1) = "/"
    /\ CloseNameEnd(NextLt) > NextLt + 2
    /\ FoldAZ(Src(NextLt + 2, CloseNameEnd(NextLt))) # nodes[Top.parent].Data

\* The step raises no error, makes and closes no node, writes the bytes up
\* to and including "</" to the buffer and leaves the cursor right after
\* "</".
C15_Skipped ==
    /\ status' = "running"
    /\ err' = NoErr
    /\ nodes' = nodes
    /\ text' = From(input, NextLt + 2)
    /\ stack' = BufWrite(stack, Src(Off(text), NextLt + 2))

\* C15: in raw-text mode "</" followed by a non-empty name other than the
\* element's is no error and consumes only "</", which goes to the buffer;
\* scanning goes on right after it.
C15_MismatchedCloseTag == [][C15_AtMismatch => C15_Skipped]_vars

\* The same where the name is followed by some byte of the input.
C15_TerminatedMismatch ==
    [][C15_AtMismatch /\ CloseNameEnd(NextLt) < Len(input) => C15_Skipped]_vars

\* The whole of a mismatched close tag is in the Text child of the element.
C15_InChild ==
    /\ Ok
    /\ input = <<"<", "t", "i", "t", "l", "e", ">", "a", "<", "/", "b", " ", "c", "<", "/", "T", "I", "T", "L", "E", ">">>
    /\ \E n \in Elements :
          /\ Len(nodes[n].Children) = 1
          /\ nodes[nodes[n].Children[1]].Data = <<"a", "<", "/", "b", " ", "c">>

\* <style></b: the name b runs to the end of the input and the parse panics.
C15_Witness ==
    /\ status = "panic"
    /\ input = <<"<", "s", "t", "y", "l", "e", ">", "<", "/", "b">>
    /\ text = <<"b">>
    /\ Len(stack) = 2

----------------------------------------------------------------------------
(* C16 *)

\* Node m is in the tree under the caller's root.
Attached(m) == IsAncestor(1, m)

\* C16: when Parse has returned, with nil or with an error, every node
\* taken from the arena is in the tree under the caller's root.
C16_AllAttached ==
    status = "returned" => \A m \in 2..Len(nodes) : Attached(m)

\* The same for the calls that return nil.
C16_AttachedOnSuccess ==
    Ok => \A m \in 2..Len(nodes) : Attached(m)

\* <a =>: Parse returned an error, the element a was taken from the arena
\* and is in no tree.
C16_Witness ==
    /\ Failed
    /\ input = <<"<", "a", " ", "=", ">">>
    /\ Len(nodes) = 2
    /\ nodes[2].Type = "ElementNode"
    /\ nodes[2].Data = <<"a">>
    /\ nodes[2].Parent = 0
    /\ nodes[1].Children = <<>>

----------------------------------------------------------------------------
(* C17 *)

\* Node m keeps its parent, and the children it had stay its first children.
StaysAttached(m) ==
    /\ nodes'[m].Parent = nodes[m].Parent
    /\ IsPrefix(nodes[m].Children, nodes'[m].Children)

\* A step taken while an error is being returned: one more invocation
\* returns the same error; no node is made or changed, no byte consumed.
C17_PassedUp ==
    /\ err' = err
    /\ nodes' = nodes
    /\ text' = text
    /\ stack' = Pop(stack)
    /\ status' = (IF stack' = <<>> THEN "returned" ELSE "running")

\* C17: once an invocation has reported an error, each enclosing invocation
\* returns that error with no node appended and no input consumed, up to
\* Parse; the step that reports the error and the steps after it leave every
\* node attached where it was.
C17_FaultAborts ==
    [][/\ err # NoErr => C17_PassedUp
       /\ err' # NoErr => \A m \in 1..Len(nodes) : StaysAttached(m)]_vars

\* <a>abc<: Parse returned the end-of-file error; a is a child of the root
\* and the Text abc a child of a.
C17_Witness ==
    /\ Failed
    /\ err = ErrEOFOpening
    /\ input = <<"<", "a", ">", "a", "b", "c", "<">>
    /\ Len(nodes) = 3
    /\ nodes[1].Children = <<2>>
    /\ nodes[2].Children = <<3>>
    /\ nodes[3].Type = "TextNode"
    /\ nodes[3].Data = <<"a", "b", "c">>

----------------------------------------------------------------------------
(* C18 *)

\* The number of invocations of parse and parseRaw inside the one Parse made
Depth == Cardinality({i \in 1..Len(stack) : stack[i].fn \in {"parse", "parseRaw"}}) - 1

\* One step: the cursor never grows, and a step after which the parse goes
\* on (an iteration of one of the three loops, or a return into the loop of
\* the caller) leaves it strictly shorter.
C18_Forward ==
    /\ Len(text') <= Len(text)
    /\ text' = From(input, Off(text'))
    /\ (status' = "running" /\ err' = NoErr) => Len(text') < Len(text)

\* The invocations of parse and parseRaw below the first are at most as many
\* as the open elements.
C18_DepthBound == Depth <= Cardinality(Open)

\* One step: the pair (bytes left, invocations on the stack) gets smaller in
\* lexicographic order, or the run ends; so no run has more steps than a
\* bound set by the length of the input.
C18_Variant ==
    \/ Len(text') < Len(text)
    \/ Len(text') = Len(text) /\ Len(stack') < Len(stack)
    \/ status' # "running"

\* The cursor only moves forward, strictly in every iteration that goes on,
\* every step brings the end of the run nearer, and the recursion is never
\* deeper than the number of open elements.
C18_Progress == [][C18_Forward /\ C18_Variant]_vars /\ []C18_DepthBound

\* C18: the cursor only moves forward, strictly in every iteration; Parse
\* therefore terminates on every input by returning nil or an error, and
\* its recursion is never deeper than the number of open elements.
C18_Terminates ==
    /\ [][C18_Forward /\ C18_Variant]_vars
    /\ []C18_DepthBound
    /\ [](Done => status = "returned")

\* <a><x: Parse has ended at depth one without returning.
C18_Witness ==
    /\ Done
    /\ status # "returned"
    /\ input = <<"<", "a", ">", "<", "x">>
    /\ Depth = 1
    /\ Cardinality(Open) = 1
    /\ Len(text) < Len(input)

----------------------------------------------------------------------------
(* C19 *)

\* The bytes that end an unquoted value in the earlier nextValue, which
\* searched for any byte of this constant
unquotInvalid == whitespaceF \cup {NUL, "\"", "'", "=", "<", ">", Backtick}

\* Attribute i of element n, read as an unquoted value, is the run of bytes
\* from its first byte up to the first byte of B, and what the parser read
\* after it starts at that byte, blanks skipped.
BareRun(n, i, B) ==
    LET a == nodes[n].Attr[i]
        e == RunEnd(a.at, B)
    IN  /\ a.Val = Src(a.at, e)
        /\ i < Len(nodes[n].Attr) => nodes[n].Attr[i + 1].keyAt = SkipWs(e)
        /\ (i = Len(nodes[n].Attr) /\ InStartTag /\ Top.node = n /\ err = NoErr)
              => Off(text) = SkipWs(e)

\* C19: an unquoted attribute value is the maximal run of bytes that are
\* none of whitespace, NUL, '"', "'", '=', '<', '>' and backtick; the byte
\* that ends it, a backtick included, is left in the cursor.
C19_BareStopsAtBacktick ==
    \A n \in Elements : \A i \in 1..Len(nodes[n].Attr) :
        nodes[n].Attr[i].kind = "bare" => BareRun(n, i, unquotInvalid)

\* The same with the bytes that unquotInvalidF holds of: no backtick.
C19_BareRunAsCoded ==
    \A n \in Elements : \A i \in 1..Len(nodes[n].Attr) :
        nodes[n].Attr[i].kind = "bare" => BareRun(n, i, BareStop)

\* <dIv Bc=De`>foo</DiV>: the value of bc holds the backtick.
C19_Witness ==
    /\ Ok
    /\ input = <<"<", "d", "I", "v", " ", "B", "c", "=", "D", "e", Backtick, ">", "f", "o", "o", "<", "/", "D", "i", "V", ">">>
    /\ \E n \in Elements :
          /\ Len(nodes[n].Attr) = 1
          /\ nodes[n].Attr[1].kind = "bare"
          /\ nodes[n].Attr[1].Val = <<"D", "e", Backtick>>

====
